---- MODULE Spec2Model ----
(***************************************************************************)
(* A model of the insurance risk dashboard script (src/app.py).            *)
(*                                                                         *)
(* Three specifications share the module's variables:                      *)
(*   SpecAlign  the inline schema alignment, as a function of a record     *)
(*              set and a schema;                                          *)
(*   SpecData   preprocessing, split and class balancing on concrete rows; *)
(*   Spec       one browser session: script runs, their stages, the        *)
(*              persistence gate, the prediction log and the attribution   *)
(*              stages, across reruns.                                     *)
(***************************************************************************)
EXTENDS Integers, Sequences, FiniteSets, TLC

VARIABLES
    \* --- schema alignment (SpecAlign) ---
    apc,        \* "idle" | "input" | "aligned" | "realigned"
    X,          \* the encoded record set handed to the alignment
    S,          \* expected_features: the trained model's feature list
    out,        \* the record set after one alignment
    out2        \* the record set after aligning the aligned record set again

alignVars == <<apc, X, S, out, out2>>

VARIABLES
    \* --- preprocessing, split and balancing on concrete rows (SpecData) ---
    dpc,        \* the stage about to run, or "done" / "aborted" / "idle"
    raw,        \* the claim_amount_SZL column as read from the uploaded file
    amt,        \* df['claim_amount_SZL']
    risk,       \* df['claim_risk'] (<<>> until it is derived)
    gender,     \* df['gender'], a categorical column
    dates,      \* the date columns still in df: column name -> cells
    dparts,     \* the derived <<year, month, day>> columns: column name -> rows
    segment,    \* df['customer_segment'] (<<>> until it is assigned)
    schema,     \* X.columns after one-hot encoding (<<>> until encoded)
    trainIdx,   \* the rows of X_train / y_train
    testIdx,    \* the rows of X_test / y_test
    balanced,   \* train_data_balanced, as the row numbers it holds in order
    events      \* the stages executed so far in this run, in order

dataVars == <<dpc, raw, amt, risk, gender, dates, dparts, segment, schema,
              trainIdx, testIdx, balanced, events>>

VARIABLES
    \* --- one browser session (Spec): what outlives a script run ---
    run,        \* the number of script runs with an uploaded file so far
    reqs,       \* the number of Predict clicks so far
    logExists,  \* os.path.exists('./prediction_log.csv')
    logLines,   \* the lines of prediction_log.csv
    appLog,     \* the "Prediction: ..." records of app.log, in order
    artifact,   \* rf_model.pkl: <<>> or the run and recall of the saved model
    sessShap,   \* st.session_state['shap_df']: 0 or the run that stored it
    plotFile,   \* shap_plot.png: 0 or the run that saved it
    \* --- the script run in progress ---
    pc,         \* the stage about to run, "end" or "stopped"
    data,       \* the uploaded dataset
    ran,        \* the stages this run has executed
    recall,     \* recall_class_1 as <<true positives, support>>, <<>> before
    rfMem,      \* rf is defined and fitted
    explainerDef, \* explainer is defined
    featsFrom,  \* the stage that defined expected_features, or "none"
    predResult, \* "none" | "ok" | "failed"
    shapStatus, \* "pending" | "ok" | "failed"
    segResult,  \* "none" | "rendered" | "error" | "name_error"
    regionResult, \* "none" | "rendered" | "error" | "name_error"
    offered     \* the attribution downloads offered: <<kind, run of origin>>

sessVars == <<run, reqs, logExists, logLines, appLog, artifact, sessShap, plotFile>>

runVars == <<pc, data, ran, recall, rfMem, explainerDef, featsFrom, predResult,
             shapStatus, segResult, regionResult, offered>>

VARIABLES
    \* --- sessions writing prediction_log.csv at the same time (SpecLog) ---
    wpc,        \* per session: where its Predict handler stands
    wsaw,       \* per session: what os.path.exists(log_file) returned to it
    wrow,       \* per session: its pred_log row, <<>> before it is built
    wreq,       \* per session: the number of Predict clicks so far
    wsaved      \* the rows whose write has returned (line 260), in order

logVars == <<wpc, wsaw, wrow, wreq, wsaved>>

vars == <<alignVars, dataVars, sessVars, runVars, logVars>>

----------------------------------------------------------------------------
(* Generic helpers *)

Range(s) == {s[i] : i \in DOMAIN s}

SeqsUpTo(A, n) == UNION {[1..k -> A] : k \in 0..n}

NoDup(s) == \A i, j \in DOMAIN s : i # j => s[i] # s[j]

----------------------------------------------------------------------------
(* Schema alignment: src/app.py lines 238-241 (and 324-327, 399-402,     *)
(* 448-451). A data frame is its ordered column names and its rows, each  *)
(* row a function from the column names to the cell values.               *)

MaxRows == 2

ColNames == {"age", "gender_F", "gender_M"}

CellVals == {0, 1}

FillValue == 0

EmptyFrame == [cols |-> <<>>, rows |-> <<>>]

\* A frame whose rows carry exactly the frame's columns.
Frame(c, r) ==
    [cols |-> c,
     rows |-> [i \in DOMAIN r |-> [k \in Range(c) |-> r[i][k]]]]

Schemas == {s \in SeqsUpTo(ColNames, Cardinality(ColNames)) : NoDup(s) /\ Len(s) >= 1}

\* df[col] = v : a new column is appended after the existing ones.
AddColumn(df, c, v) ==
    [cols |-> Append(df.cols, c),
     rows |-> [i \in DOMAIN df.rows |->
                 [k \in Range(df.cols) \cup {c} |->
                     IF k = c THEN v ELSE df.rows[i][k]]]]

\* for col in expected_features: if col not in df.columns: df[col] = 0
RECURSIVE FillMissing(_, _, _)
FillMissing(df, feats, i) ==
    IF i > Len(feats) THEN df
    ELSE IF feats[i] \in Range(df.cols)
         THEN FillMissing(df, feats, i + 1)
         ELSE FillMissing(AddColumn(df, feats[i], FillValue), feats, i + 1)

\* Mutant: the selection is positional (the last len(feats) columns).
SelectColumnsPositional(df, feats) ==
    LET n == Len(df.cols)
        k == Len(feats)
        c == SubSeq(df.cols, n - k + 1, n)
    IN [cols |-> c,
        rows |-> [i \in DOMAIN df.rows |-> [x \in Range(c) |-> df.rows[i][x]]]]

\* df = df[expected_features] : selection by name, in the schema's order.
SelectColumns(df, feats) ==
    [cols |-> feats,
     rows |-> [i \in DOMAIN df.rows |-> [k \in Range(feats) |-> df.rows[i][k]]]]

\* Mutant: the extra columns are not dropped (the selection is skipped).
AlignKeepExtras(df, feats) == FillMissing(df, feats, 1)

Align(df, feats) == SelectColumns(FillMissing(df, feats, 1), feats)

AlignIdle ==
    /\ apc = "idle"
    /\ X = EmptyFrame
    /\ S = <<>>
    /\ out = EmptyFrame
    /\ out2 = EmptyFrame

AlignInit ==
    /\ apc = "input"
    /\ \E c \in {s \in SeqsUpTo(ColNames, Cardinality(ColNames)) : NoDup(s)},
          r \in SeqsUpTo([ColNames -> CellVals], MaxRows) :
            X = Frame(c, r)
    /\ S \in Schemas
    /\ out = EmptyFrame
    /\ out2 = EmptyFrame

AlignOnce ==
    /\ apc = "input"
    /\ out' = Align(X, S)
    /\ apc' = "aligned"
    /\ UNCHANGED <<X, S, out2, dataVars, sessVars, runVars, logVars>>

AlignAgain ==
    /\ apc = "aligned"
    /\ out2' = Align(out, S)
    /\ apc' = "realigned"
    /\ UNCHANGED <<X, S, out, dataVars, sessVars, runVars, logVars>>

----------------------------------------------------------------------------
(* Preprocessing on concrete rows: src/app.py lines 69-94.                *)
(* A cell is <<"nan">> (missing), <<"num", n>> or <<"str", s>>.           *)

NA == <<"nan">>

Num(v) == <<"num", v>>

Str(s) == <<"str", s>>

IsNA(c) == c[1] = "nan"

IsNum(c) == c[1] = "num"

MaxData == 9

\* Claim amounts are even, so that the median of two of them is an integer.
Amounts == {0, 2, 4}

AmountCells == {NA} \cup {Num(v) : v \in Amounts}

\* NaN sorts first, numbers by value: the uploaded rows are taken in this
\* order (the row order plays no part in the label or the imputation).
CellRank(c) == IF IsNA(c) THEN 0 - 1 ELSE c[2]

\* The cells in sorted order: the sorted columns are the ones made of a run
\* of each cell in turn (a run may be empty).
SortedCells == <<NA, Num(0), Num(2), Num(4)>>

AmountColumns ==
    UNION {
      { [i \in 1..n |-> SortedCells[1 + Cardinality({k \in DOMAIN cut : cut[k] < i})]] :
          cut \in {c \in [1..(Len(SortedCells) - 1) -> 0..n] :
                     \A k \in DOMAIN c : k > 1 => c[k - 1] <= c[k]} } :
      n \in 1..MaxData }

\* The values of a column's non-missing numeric cells, as a sequence.
RECURSIVE Present(_)
Present(col) ==
    IF col = <<>> THEN <<>>
    ELSE IF IsNum(Head(col)) THEN <<Head(col)[2]>> \o Present(Tail(col))
         ELSE Present(Tail(col))

\* The k-th smallest (1-based) of a non-empty sequence of integers.
KthSmallest(v, k) ==
    CHOOSE x \in Range(v) :
        /\ Cardinality({i \in DOMAIN v : v[i] < x}) < k
        /\ Cardinality({i \in DOMAIN v : v[i] <= x}) >= k

\* Four times Series.quantile(0.75) with linear interpolation, of a
\* non-empty sequence: position 0.75 * (m - 1) between two order statistics.
Quantile75x4(v) ==
    LET m  == Len(v)
        lo == (3 * (m - 1)) \div 4
        r  == (3 * (m - 1)) % 4
        a  == KthSmallest(v, lo + 1)
        b  == IF r = 0 THEN a ELSE KthSmallest(v, lo + 2)
    IN 4 * a + r * (b - a)

\* Series.median() of a non-empty sequence whose values are even or whose
\* length is odd.
Median(v) ==
    LET m == Len(v)
    IN IF m % 2 = 1 THEN KthSmallest(v, (m + 1) \div 2)
       ELSE (KthSmallest(v, m \div 2) + KthSmallest(v, m \div 2 + 1)) \div 2

\* Mutant: the comparison with the quantile is strict.
LabelColumnStrict(col) ==
    LET v == Present(col)
    IN [i \in DOMAIN col |->
          IF IsNum(col[i]) /\ v # <<>> /\ 4 * col[i][2] > Quantile75x4(v)
          THEN 1 ELSE 0]

\* (df[c] >= df[c].quantile(0.75)).astype(int): the quantile skips NaN, and
\* NaN >= q is False.
LabelColumn(col) ==
    LET v == Present(col)
    IN [i \in DOMAIN col |->
          IF IsNum(col[i]) /\ v # <<>> /\ 4 * col[i][2] >= Quantile75x4(v)
          THEN 1 ELSE 0]

\* df.fillna(df.median(numeric_only=True)): a column with no number has a
\* NaN median and is left as it is.
FillMedian(col) ==
    LET v == Present(col)
    IN IF v = <<>> THEN col
       ELSE [i \in DOMAIN col |-> IF IsNA(col[i]) THEN Num(Median(v)) ELSE col[i]]

\* df.fillna('Unknown') on one column.
FillUnknown(col) ==
    [i \in DOMAIN col |-> IF IsNA(col[i]) THEN Str("Unknown") ELSE col[i]]

DateCols == <<"policy_start_date", "claim_date">>

\* pd.to_datetime of one cell: <<year, month, day>>, or <<>> when the cell
\* cannot be parsed (to_datetime then raises).
ParseDate(c) ==
    IF c = Str("2024-01-15") THEN <<2024, 1, 15>>
    ELSE IF c = Str("2023-12-31") THEN <<2023, 12, 31>>
    ELSE <<>>

Parseable(col) == \A i \in DOMAIN col : ParseDate(col[i]) # <<>>

\* The other columns of the uploaded file, for n rows: the gender column and
\* the date columns that are present.
GoodDate(n) == [i \in 1..n |-> IF i % 2 = 1 THEN Str("2024-01-15") ELSE Str("2023-12-31")]

SideColumns(n) ==
    { [gender |-> [i \in 1..n |-> IF i % 2 = 1 THEN Str("F") ELSE Str("M")],
       dates  |-> [c \in {"policy_start_date", "claim_date"} |-> GoodDate(n)]],
      [gender |-> [i \in 1..n |-> IF i = 1 THEN NA ELSE Str("F")],
       dates  |-> [c \in {"policy_start_date", "claim_date"} |-> GoodDate(n)]],
      [gender |-> [i \in 1..n |-> Str("M")],
       dates  |-> [c \in {"claim_date"} |-> GoodDate(n)]],
      [gender |-> [i \in 1..n |-> Str("F")],
       dates  |-> [c \in {"policy_start_date", "claim_date"} |->
                     IF c = "claim_date"
                     THEN [i \in 1..n |-> IF i = 1 THEN NA ELSE GoodDate(n)[i]]
                     ELSE GoodDate(n)]],
      [gender |-> [i \in 1..n |-> Str("F")],
       dates  |-> [c \in {"policy_start_date", "claim_date"} |->
                     IF c = "policy_start_date"
                     THEN [i \in 1..n |-> IF i = n THEN Str("31/31/2024") ELSE GoodDate(n)[i]]
                     ELSE GoodDate(n)]] }

NoParts == [c \in {} |-> <<>>]

DataIdle ==
    /\ dpc = "idle"
    /\ raw = <<>> /\ amt = <<>> /\ risk = <<>> /\ gender = <<>>
    /\ dates = NoParts /\ dparts = NoParts
    /\ segment = <<>> /\ schema = <<>>
    /\ trainIdx = {} /\ testIdx = {} /\ balanced = <<>>
    /\ events = <<>>

\* Mutant: the numeric imputation runs before the label is derived.
StageAfterImputeFirst(s) ==
    CASE s = "load"           -> "impute_num"
      [] s = "impute_num"     -> "label"
      [] s = "label"          -> "impute_unknown"
      [] s = "impute_unknown" -> "dates"
      [] s = "dates"          -> "segment"
      [] s = "segment"        -> "encode"
      [] s = "encode"         -> "split"
      [] s = "split"          -> "balance"
      [] OTHER                -> "done"

\* The order of the script's statements, lines 69-106.
StageAfter(s) ==
    CASE s = "load"           -> "label"
      [] s = "label"          -> "impute_num"
      [] s = "impute_num"     -> "impute_unknown"
      [] s = "impute_unknown" -> "dates"
      [] s = "dates"          -> "segment"
      [] s = "segment"        -> "encode"
      [] s = "encode"         -> "split"
      [] s = "split"          -> "balance"
      [] OTHER                -> "done"

\* df = load_data(uploaded_file): the state after line 62.
DataInit ==
    /\ dpc = StageAfter("load")
    /\ raw \in AmountColumns
    /\ amt = raw
    /\ risk = <<>>
    /\ \E side \in SideColumns(Len(raw)) :
          /\ gender = side.gender
          /\ dates = side.dates
    /\ dparts = NoParts
    /\ segment = <<>> /\ schema = <<>>
    /\ trainIdx = {} /\ testIdx = {} /\ balanced = <<>>
    /\ events = <<"load">>

\* line 70: df['claim_risk'] = (amount >= amount.quantile(0.75)).astype(int)
DeriveLabel ==
    /\ dpc = "label"
    /\ risk' = LabelColumn(amt)
    /\ events' = Append(events, "label")
    /\ dpc' = StageAfter("label")
    /\ UNCHANGED <<raw, amt, gender, dates, dparts, segment, schema,
                   trainIdx, testIdx, balanced, alignVars, sessVars, runVars, logVars>>

\* line 71: df.fillna(df.median(numeric_only=True), inplace=True)
ImputeNumeric ==
    /\ dpc = "impute_num"
    /\ amt' = FillMedian(amt)
    /\ events' = Append(events, "impute_num")
    /\ dpc' = StageAfter("impute_num")
    /\ UNCHANGED <<raw, risk, gender, dates, dparts, segment, schema,
                   trainIdx, testIdx, balanced, alignVars, sessVars, runVars, logVars>>

\* line 72: df.fillna('Unknown', inplace=True)
ImputeUnknown ==
    /\ dpc = "impute_unknown"
    /\ amt' = FillUnknown(amt)
    /\ gender' = FillUnknown(gender)
    /\ dates' = [c \in DOMAIN dates |-> FillUnknown(dates[c])]
    /\ events' = Append(events, "impute_unknown")
    /\ dpc' = StageAfter("impute_unknown")
    /\ UNCHANGED <<raw, risk, dparts, segment, schema,
                   trainIdx, testIdx, balanced, alignVars, sessVars, runVars, logVars>>

\* lines 75-82, all columns parse: each present date column is replaced by
\* its year, month and day.
DeriveDates ==
    /\ dpc = "dates"
    /\ \A c \in DOMAIN dates : Parseable(dates[c])
    /\ dparts' = [c \in DOMAIN dates |->
                    [i \in DOMAIN dates[c] |-> ParseDate(dates[c][i])]]
    /\ dates' = NoParts
    /\ events' = Append(events, "dates")
    /\ dpc' = StageAfter("dates")
    /\ UNCHANGED <<raw, amt, risk, gender, segment, schema,
                   trainIdx, testIdx, balanced, alignVars, sessVars, runVars, logVars>>

\* line 78 raises on the first date column (in the order of date_cols) that
\* holds a cell pd.to_datetime cannot parse; the columns before it are
\* already replaced. The exception is not caught: the run ends.
DatesFail ==
    /\ dpc = "dates"
    /\ \E k \in DOMAIN DateCols :
          /\ DateCols[k] \in DOMAIN dates
          /\ ~Parseable(dates[DateCols[k]])
          /\ \A j \in 1..(k - 1) :
                DateCols[j] \in DOMAIN dates => Parseable(dates[DateCols[j]])
          /\ LET done == {DateCols[j] : j \in 1..(k - 1)} \cap DOMAIN dates
             IN /\ dparts' = [c \in done |->
                                [i \in DOMAIN dates[c] |-> ParseDate(dates[c][i])]]
                /\ dates' = [c \in DOMAIN dates \ done |-> dates[c]]
    /\ events' = Append(events, "dates_failed")
    /\ dpc' = "aborted"
    /\ UNCHANGED <<raw, amt, risk, gender, segment, schema,
                   trainIdx, testIdx, balanced, alignVars, sessVars, runVars, logVars>>

NClusters == 4

SegmentNames == <<"0", "1", "2", "3">>

\* The column is numeric (int64 / float64) when no cell is a string.
NumericColumn(col) == \A i \in DOMAIN col : IsNum(col[i])

\* KMeans(n_clusters=4, random_state=42).fit_predict is not computed here:
\* a row's cluster is a function of its numeric features, the same for equal
\* rows, taken from a small family of such functions.
ClusterOf(col, i, shift) ==
    IF NumericColumn(col) THEN ((col[i][2] \div 2) + shift) % NClusters
    ELSE shift % NClusters

\* lines 85-88: KMeans raises when there are fewer rows than clusters.
AssignSegments ==
    /\ dpc = "segment"
    /\ Len(amt) >= NClusters
    /\ \E shift \in {0, 1} :
          segment' = [i \in DOMAIN amt |->
                        Str(SegmentNames[ClusterOf(amt, i, shift) + 1])]
    /\ events' = Append(events, "segment")
    /\ dpc' = StageAfter("segment")
    /\ UNCHANGED <<raw, amt, risk, gender, dates, dparts, schema,
                   trainIdx, testIdx, balanced, alignVars, sessVars, runVars, logVars>>

SegmentFail ==
    /\ dpc = "segment"
    /\ Len(amt) < NClusters
    /\ events' = Append(events, "segment_failed")
    /\ dpc' = "aborted"
    /\ UNCHANGED <<raw, amt, risk, gender, dates, dparts, segment, schema,
                   trainIdx, testIdx, balanced, alignVars, sessVars, runVars, logVars>>

\* The category values in the order get_dummies gives their columns (sorted).
GenderOrder == <<"F", "M", "Unknown">>

Observed(order, col) ==
    LET Seen(v) == Str(v) \in Range(col)
    IN SelectSeq(order, Seen)

Prefixed(name, vals) == [i \in DOMAIN vals |-> <<name, vals[i]>>]

RECURSIVE DatePartColumns(_)
DatePartColumns(k) ==
    IF k > Len(DateCols) THEN <<>>
    ELSE (IF DateCols[k] \in DOMAIN dparts
          THEN Prefixed(DateCols[k], <<"year", "month", "day">>)
          ELSE <<>>) \o DatePartColumns(k + 1)

\* lines 89-97: pd.get_dummies(df, columns=categorical_cols) and the drop of
\* the two target columns: the kept columns first, then one column per
\* observed value of each categorical column.
Encode ==
    /\ dpc = "encode"
    /\ schema' = DatePartColumns(1)
                 \o Prefixed("gender", Observed(GenderOrder, gender))
                 \o Prefixed("customer_segment", Observed(SegmentNames, segment))
    /\ events' = Append(events, "encode")
    /\ dpc' = StageAfter("encode")
    /\ UNCHANGED <<raw, amt, risk, gender, dates, dparts, segment,
                   trainIdx, testIdx, balanced, alignVars, sessVars, runVars, logVars>>

RowsOf(c) == {i \in DOMAIN risk : risk[i] = c}

Classes == {c \in {0, 1} : RowsOf(c) # {}}

\* test_size=0.2: n_test = ceil(0.2 * n), n_train = n - n_test.
NTest(n) == (n + 4) \div 5

NTrain(n) == n - NTest(n)

\* StratifiedShuffleSplit's checks.
SplitValid ==
    LET n == Len(risk)
    IN /\ NTrain(n) > 0
       /\ \A c \in Classes : Cardinality(RowsOf(c)) >= 2
       /\ NTrain(n) >= Cardinality(Classes)
       /\ NTest(n) >= Cardinality(Classes)

\* _approximate_mode(class_counts, n_train): each class gets the floor of its
\* share, and a draw left over goes to the class with the larger remainder
\* (either class on a tie). The result is the set of possible class-1 counts.
TrainOnes ==
    LET n   == Len(risk)
        c0  == Cardinality(RowsOf(0))
        c1  == Cardinality(RowsOf(1))
        f0  == (c0 * NTrain(n)) \div n
        f1  == (c1 * NTrain(n)) \div n
        r0  == (c0 * NTrain(n)) % n
        r1  == (c1 * NTrain(n)) % n
        add == NTrain(n) - f0 - f1
    IN IF add = 0 THEN {f1}
       ELSE IF r1 > r0 THEN {f1 + 1}
       ELSE IF r0 > r1 THEN {f1}
       ELSE {f1, f1 + 1}

\* line 99: train_test_split(X, y, test_size=0.2, stratify=y, random_state=42).
\* Which rows of a class go to which side is the shuffle's choice.
Split ==
    /\ dpc = "split"
    /\ SplitValid
    /\ \E k1 \in TrainOnes :
       \E t1 \in SUBSET RowsOf(1), t0 \in SUBSET RowsOf(0) :
          /\ Cardinality(t1) = k1
          /\ Cardinality(t0) = NTrain(Len(risk)) - k1
          /\ trainIdx' = t0 \cup t1
          /\ testIdx' = DOMAIN risk \ (t0 \cup t1)
    /\ events' = Append(events, "split")
    /\ dpc' = StageAfter("split")
    /\ UNCHANGED <<raw, amt, risk, gender, dates, dparts, segment, schema,
                   balanced, alignVars, sessVars, runVars, logVars>>

SplitFail ==
    /\ dpc = "split"
    /\ ~SplitValid
    /\ events' = Append(events, "split_failed")
    /\ dpc' = "aborted"
    /\ UNCHANGED <<raw, amt, risk, gender, dates, dparts, segment, schema,
                   trainIdx, testIdx, balanced, alignVars, sessVars, runVars, logVars>>

RECURSIVE Ascending(_)
Ascending(s) ==
    IF s = {} THEN <<>>
    ELSE LET m == CHOOSE x \in s : \A y \in s : x <= y
         IN <<m>> \o Ascending(s \ {m})

\* line 101: majority = train_data[train_data.claim_risk == 0]
MajorityRows == trainIdx \cap RowsOf(0)

\* line 102: minority = train_data[train_data.claim_risk == 1]
MinorityRows == trainIdx \cap RowsOf(1)

\* resample(..., random_state=42) draws its row positions with
\* RandomState(42).randint(0, m, size=n): SeededStream[m] holds the first
\* draws of that call for a frame of m rows (computed from the generator, a
\* Mersenne Twister seeded with 42 whose 32-bit outputs are masked to the
\* bits of m - 1 and rejected above m - 1); the draws for a smaller n are
\* a prefix of those for a larger one.
SeededStream ==
    <<
       <<0, 0, 0, 0, 0, 0, 0, 0, 0, 0, 0, 0>>,
       <<0, 1, 0, 0, 0, 1, 0, 0, 0, 1, 0, 0>>,
       <<2, 0, 2, 2, 0, 0, 2, 1, 2, 2, 2, 2>>,
       <<2, 3, 0, 2, 2, 3, 0, 0, 2, 1, 2, 2>>,
       <<3, 4, 2, 4, 4, 1, 2, 2, 2, 4, 3, 2>>,
       <<3, 4, 2, 4, 4, 1, 2, 2, 2, 4, 3, 2>>,
       <<6, 3, 4, 6, 2, 4, 4, 6, 1, 2, 6, 2>>,
       <<6, 3, 4, 6, 2, 7, 4, 4, 6, 1, 2, 6>>,
       <<6, 3, 7, 4, 6, 2, 6, 7, 4, 3, 7, 7>>,
       <<6, 3, 7, 4, 6, 9, 2, 6, 7, 4, 3, 7>>,
       <<6, 3, 10, 7, 4, 6, 9, 2, 6, 10, 10, 7>>,
       <<6, 3, 10, 7, 4, 6, 9, 2, 6, 10, 10, 7>> >>

\* The positions (from 0) of the n rows drawn from a frame of m rows.
ResampleIndices(m, n) == [k \in 1..n |-> SeededStream[m][k]]

\* sklearn.utils.resample(frame, replace=True, n_samples=n, random_state=42)
\* on a frame of m rows: the rows of frame at the drawn positions.
Resample(frame, m, n) == [k \in 1..n |-> frame[ResampleIndices(m, n)[k]]]

\* The rows that can stand at the positions pos of the shuffled training
\* frame's rows of s: any rows of s, no row at two positions.
Placements(pos, s) ==
    {f \in [pos -> s] : \A p, q \in pos : f[p] = f[q] => p = q}

\* lines 100-106: the balanced set is the majority frame followed by
\* len(majority) rows drawn from the minority frame. The minority frame keeps
\* the row order of the shuffled training split; only the rows at the drawn
\* positions matter.
Balance ==
    /\ dpc = "balance"
    /\ MinorityRows # {} \/ MajorityRows = {}
    /\ LET m == Cardinality(MinorityRows)
           n == Cardinality(MajorityRows)
       IN \E minority \in Placements(Range(ResampleIndices(m, n)), MinorityRows) :
             balanced' = Ascending(MajorityRows) \o Resample(minority, m, n)
    /\ events' = Append(events, "balance")
    /\ dpc' = StageAfter("balance")
    /\ UNCHANGED <<raw, amt, risk, gender, dates, dparts, segment, schema,
                   trainIdx, testIdx, alignVars, sessVars, runVars, logVars>>

\* resample draws indices below len(minority): with no minority row and at
\* least one draw asked for, it raises.
BalanceFail ==
    /\ dpc = "balance"
    /\ MinorityRows = {} /\ MajorityRows # {}
    /\ events' = Append(events, "balance_failed")
    /\ dpc' = "aborted"
    /\ UNCHANGED <<raw, amt, risk, gender, dates, dparts, segment, schema,
                   trainIdx, testIdx, balanced, alignVars, sessVars, runVars, logVars>>

NextData ==
    \/ DeriveLabel
    \/ ImputeNumeric
    \/ ImputeUnknown
    \/ DeriveDates
    \/ DatesFail
    \/ AssignSegments
    \/ SegmentFail
    \/ Encode
    \/ Split
    \/ SplitFail
    \/ Balance
    \/ BalanceFail

----------------------------------------------------------------------------
(* One browser session: src/app.py run top to bottom on every interaction. *)
(* The script's variables are rebuilt by each run; the files and           *)
(* st.session_state outlive it.                                            *)

MaxRuns == 3

SampleSize == 50

RecallThresholdPct == 39

CategoricalCols ==
    {"claim_type", "gender", "location", "policy_type", "insurance_provider"}

RequiredCols ==
    CategoricalCols \cup
    {"claim_amount_SZL", "policy_start_date", "claim_date", "Latitude", "Longitude"}

DateColSet == {DateCols[k] : k \in DOMAIN DateCols}

\* An uploaded file: whether pd.read_csv can read it, the required columns
\* it holds, one cell of each date column it holds, and its row count.
Dataset(loadable, cols, startCell, claimCell, rows) ==
    [loadable |-> loadable,
     cols     |-> cols,
     cells    |-> [c \in DateColSet \cap cols |->
                     IF c = "policy_start_date" THEN <<startCell>> ELSE <<claimCell>>],
     rows     |-> rows]

GoodCell == Str("2024-01-15")

Datasets ==
    { Dataset(TRUE, RequiredCols, GoodCell, GoodCell, 300),
      Dataset(TRUE, RequiredCols, GoodCell, GoodCell, 100),
      Dataset(FALSE, {}, GoodCell, GoodCell, 0),
      Dataset(TRUE, RequiredCols \ {"claim_amount_SZL"}, GoodCell, GoodCell, 300),
      Dataset(TRUE, RequiredCols \ {"gender"}, GoodCell, GoodCell, 300),
      Dataset(TRUE, RequiredCols \ {"Latitude"}, GoodCell, GoodCell, 300),
      Dataset(TRUE, RequiredCols \ {"policy_start_date"}, GoodCell, GoodCell, 300),
      Dataset(TRUE, RequiredCols, GoodCell, Str("31/31/2024"), 300),
      Dataset(TRUE, RequiredCols, NA, GoodCell, 300) }

NoData == Dataset(FALSE, {}, GoodCell, GoodCell, 0)

\* recall_class_1 = true positives / support of class 1 in y_test.
RecallCases == {<<0, 1>>, <<1, 1>>, <<38, 100>>, <<39, 100>>, <<40, 100>>}

\* rf.predict_proba(...)[0][1] in percent.
Probs == {50, 80}

\* rf.predict: the class with the larger probability, class 0 on a tie.
PredictedLabel(prob) == IF prob > 50 THEN "High Risk" ELSE "Low Risk"

\* A line of prediction_log.csv: the header, or the row of one request
\* (its timestamp, here the request's number, its label, its probability).
Header == <<"header", <<"timestamp", "prediction", "probability_high_risk">>>>

Row(r) == <<"row", r>>

\* Mutant: the gate is inclusive.
GatePassesInclusive(r) == 100 * r[1] >= RecallThresholdPct * r[2]

\* line 125: recall_class_1 > 0.39
GatePasses(r) == 100 * r[1] > RecallThresholdPct * r[2]

\* Mutant: the script stops when the model is not saved.
AfterGateStopUnlessSaved(saved) == IF saved THEN "predict" ELSE "stopped"

\* lines 125-131: both branches of the gate fall through to the dashboard.
AfterGate(saved) == "predict"

\* Mutant: the log is rewritten by every request.
WriteLogOverwrite(exists, lines, row) == <<Header, Row(row)>>

\* lines 256-259: append without a header, or create with one.
WriteLog(exists, lines, row) ==
    IF exists THEN Append(lines, Row(row)) ELSE <<Header, Row(row)>>

FreshRun ==
    /\ ran = {}
    /\ recall = <<>>
    /\ rfMem = FALSE
    /\ explainerDef = FALSE
    /\ featsFrom = "none"
    /\ predResult = "none"
    /\ shapStatus = "pending"
    /\ segResult = "none"
    /\ regionResult = "none"
    /\ offered = {}

\* A rerun rebuilds every variable of the script.
ResetRun ==
    /\ ran' = {}
    /\ recall' = <<>>
    /\ rfMem' = FALSE
    /\ explainerDef' = FALSE
    /\ featsFrom' = "none"
    /\ predResult' = "none"
    /\ shapStatus' = "pending"
    /\ segResult' = "none"
    /\ regionResult' = "none"
    /\ offered' = {}

\* The session as it opens: the script has run once with no uploaded file
\* and stopped at line 51.
SessionInit ==
    /\ run = 0 /\ reqs = 0
    /\ logExists = FALSE /\ logLines = <<>> /\ appLog = <<>>
    /\ artifact = <<>> /\ sessShap = 0 /\ plotFile = 0
    /\ pc = "stopped"
    /\ data = NoData
    /\ FreshRun

SessionIdle == SessionInit

StopRun ==
    /\ pc' = "stopped"
    /\ UNCHANGED <<data, ran, recall, rfMem, explainerDef, featsFrom, predResult,
                   shapStatus, segResult, regionResult, offered>>

Advance(next, done) ==
    /\ pc' = next
    /\ ran' = ran \cup done

\* lines 45-51: an interaction reruns the script with an uploaded file.
Rerun ==
    /\ pc \in {"end", "stopped"}
    /\ run < MaxRuns
    /\ run' = run + 1
    /\ data' \in Datasets
    /\ pc' = "load"
    /\ ResetRun
    /\ UNCHANGED <<reqs, logExists, logLines, appLog, artifact, sessShap, plotFile,
                   alignVars, dataVars, logVars>>

\* lines 61-62
LoadOk ==
    /\ pc = "load"
    /\ data.loadable
    /\ Advance("label", {"load"})
    /\ UNCHANGED <<data, recall, rfMem, explainerDef, featsFrom, predResult,
                   shapStatus, segResult, regionResult, offered,
                   sessVars, alignVars, dataVars, logVars>>

\* lines 63-66: st.error and st.stop()
LoadFail ==
    /\ pc = "load"
    /\ ~data.loadable
    /\ StopRun
    /\ UNCHANGED <<sessVars, alignVars, dataVars, logVars>>

\* lines 69-72: the label, the median imputation, the 'Unknown' imputation.
LabelImpute ==
    /\ pc = "label"
    /\ "claim_amount_SZL" \in data.cols
    /\ data' = [data EXCEPT !.cells = [c \in DOMAIN data.cells |-> FillUnknown(data.cells[c])]]
    /\ Advance("dates", {"label", "impute"})
    /\ UNCHANGED <<recall, rfMem, explainerDef, featsFrom, predResult,
                   shapStatus, segResult, regionResult, offered,
                   sessVars, alignVars, dataVars, logVars>>

\* line 70 raises KeyError: the exception is not caught and ends the run.
LabelFail ==
    /\ pc = "label"
    /\ "claim_amount_SZL" \notin data.cols
    /\ StopRun
    /\ UNCHANGED <<sessVars, alignVars, dataVars, logVars>>

\* lines 75-82: an absent date column is skipped.
ParseDates ==
    /\ pc = "dates"
    /\ \A c \in DOMAIN data.cells : Parseable(data.cells[c])
    /\ Advance("segment", {"dates"})
    /\ UNCHANGED <<data, recall, rfMem, explainerDef, featsFrom, predResult,
                   shapStatus, segResult, regionResult, offered,
                   sessVars, alignVars, dataVars, logVars>>

\* line 78 raises: not caught.
ParseDatesFail ==
    /\ pc = "dates"
    /\ \E c \in DOMAIN data.cells : ~Parseable(data.cells[c])
    /\ StopRun
    /\ UNCHANGED <<sessVars, alignVars, dataVars, logVars>>

\* lines 85-88
SegmentStage ==
    /\ pc = "segment"
    /\ Advance("encode", {"segment"})
    /\ UNCHANGED <<data, recall, rfMem, explainerDef, featsFrom, predResult,
                   shapStatus, segResult, regionResult, offered,
                   sessVars, alignVars, dataVars, logVars>>

\* lines 89-94
EncodeStage ==
    /\ pc = "encode"
    /\ CategoricalCols \subseteq data.cols
    /\ Advance("split", {"encode"})
    /\ UNCHANGED <<data, recall, rfMem, explainerDef, featsFrom, predResult,
                   shapStatus, segResult, regionResult, offered,
                   sessVars, alignVars, dataVars, logVars>>

\* line 94: pd.get_dummies raises KeyError for a listed column that is absent.
EncodeFail ==
    /\ pc = "encode"
    /\ ~(CategoricalCols \subseteq data.cols)
    /\ StopRun
    /\ UNCHANGED <<sessVars, alignVars, dataVars, logVars>>

\* lines 97-106
SplitBalanceStage ==
    /\ pc = "split"
    /\ Advance("train", {"split", "balance"})
    /\ UNCHANGED <<data, recall, rfMem, explainerDef, featsFrom, predResult,
                   shapStatus, segResult, regionResult, offered,
                   sessVars, alignVars, dataVars, logVars>>

\* lines 109-118
TrainStage ==
    /\ pc = "train"
    /\ rfMem' = TRUE
    /\ Advance("evaluate", {"train"})
    /\ UNCHANGED <<data, recall, explainerDef, featsFrom, predResult,
                   shapStatus, segResult, regionResult, offered,
                   sessVars, alignVars, dataVars, logVars>>

\* lines 121-124
EvaluateStage ==
    /\ pc = "evaluate"
    /\ recall' \in RecallCases
    /\ Advance("gate", {"evaluate"})
    /\ UNCHANGED <<data, rfMem, explainerDef, featsFrom, predResult,
                   shapStatus, segResult, regionResult, offered,
                   sessVars, alignVars, dataVars, logVars>>

\* lines 125-129
GateStage ==
    /\ pc = "gate"
    /\ artifact' = IF GatePasses(recall) THEN <<run, recall>> ELSE artifact
    /\ Advance(AfterGate(GatePasses(recall)),
               IF GatePasses(recall) THEN {"persist"} ELSE {})
    /\ UNCHANGED <<data, recall, rfMem, explainerDef, featsFrom, predResult,
                   shapStatus, segResult, regionResult, offered,
                   run, reqs, logExists, logLines, appLog, sessShap, plotFile,
                   alignVars, dataVars, logVars>>

\* line 232: the Predict button was not clicked.
PredictSkip ==
    /\ pc = "predict"
    /\ pc' = "trend"
    /\ UNCHANGED <<data, ran, recall, rfMem, explainerDef, featsFrom, predResult,
                   shapStatus, segResult, regionResult, offered,
                   sessVars, alignVars, dataVars, logVars>>

\* lines 232-260: the request is scored and its row written to the log.
PredictOk ==
    /\ pc = "predict"
    /\ \E prob \in Probs :
          LET row == <<reqs + 1, PredictedLabel(prob), prob>>
          IN /\ appLog' = Append(appLog, row)
             /\ logLines' = WriteLog(logExists, logLines, row)
    /\ logExists' = TRUE
    /\ reqs' = reqs + 1
    /\ featsFrom' = "predict"
    /\ predResult' = "ok"
    /\ Advance("trend", {"predict", "log_write"})
    /\ UNCHANGED <<data, recall, rfMem, explainerDef,
                   shapStatus, segResult, regionResult, offered,
                   run, artifact, sessShap, plotFile, alignVars, dataVars, logVars>>

\* lines 232-243 and 261-263: scoring raises after expected_features is set;
\* the handler reports the failure and the script goes on.
PredictFail ==
    /\ pc = "predict"
    /\ reqs' = reqs + 1
    /\ featsFrom' = "predict"
    /\ predResult' = "failed"
    /\ pc' = "trend"
    /\ UNCHANGED <<data, ran, recall, rfMem, explainerDef,
                   shapStatus, segResult, regionResult, offered,
                   run, logExists, logLines, appLog, artifact, sessShap, plotFile,
                   alignVars, dataVars, logVars>>

\* lines 297-312: the log is read back in full and plotted.
TrendStage ==
    /\ pc = "trend"
    /\ Advance("shap", {"trend"})
    /\ UNCHANGED <<data, recall, rfMem, explainerDef, featsFrom, predResult,
                   shapStatus, segResult, regionResult, offered,
                   sessVars, alignVars, dataVars, logVars>>

\* line 320 raises: shap.TreeExplainer fails and nothing is defined.
ShapFailExplainer ==
    /\ pc = "shap"
    /\ shapStatus' = "failed"
    /\ pc' = "segshap"
    /\ UNCHANGED <<data, ran, recall, rfMem, explainerDef, featsFrom, predResult,
                   segResult, regionResult, offered,
                   sessVars, alignVars, dataVars, logVars>>

\* line 321 raises: X_test.sample(50) on a held-out set of fewer than 50
\* rows. The explainer of line 320 stays defined.
ShapFailSample ==
    /\ pc = "shap"
    /\ NTest(data.rows) < SampleSize
    /\ explainerDef' = TRUE
    /\ shapStatus' = "failed"
    /\ pc' = "segshap"
    /\ UNCHANGED <<data, ran, recall, rfMem, featsFrom, predResult,
                   segResult, regionResult, offered,
                   sessVars, alignVars, dataVars, logVars>>

\* line 328 raises: the attribution computation fails after the explainer
\* and expected_features (line 323) are defined.
ShapFailValues ==
    /\ pc = "shap"
    /\ NTest(data.rows) >= SampleSize
    /\ explainerDef' = TRUE
    /\ featsFrom' = "shap"
    /\ shapStatus' = "failed"
    /\ pc' = "segshap"
    /\ UNCHANGED <<data, ran, recall, rfMem, predResult,
                   segResult, regionResult, offered,
                   sessVars, alignVars, dataVars, logVars>>

\* lines 320-343: the plot file is saved and the top-5 table is stored in
\* st.session_state.
ShapOk ==
    /\ pc = "shap"
    /\ NTest(data.rows) >= SampleSize
    /\ explainerDef' = TRUE
    /\ featsFrom' = "shap"
    /\ shapStatus' = "ok"
    /\ plotFile' = run
    /\ sessShap' = run
    /\ Advance("segshap", {"shap"})
    /\ UNCHANGED <<data, recall, rfMem, predResult,
                   segResult, regionResult, offered,
                   run, reqs, logExists, logLines, appLog, artifact,
                   alignVars, dataVars, logVars>>

CanExplain == featsFrom # "none" /\ explainerDef

\* lines 397-416: expected_features (line 399) or explainer (line 403) is
\* not defined: NameError, reported by the handler.
SegShapNameError ==
    /\ pc = "segshap"
    /\ ~CanExplain
    /\ segResult' = "name_error"
    /\ pc' = "region"
    /\ UNCHANGED <<data, ran, recall, rfMem, explainerDef, featsFrom, predResult,
                   shapStatus, regionResult, offered,
                   sessVars, alignVars, dataVars, logVars>>

\* line 403 raises: reported by the handler.
SegShapFail ==
    /\ pc = "segshap"
    /\ CanExplain
    /\ segResult' = "error"
    /\ pc' = "region"
    /\ UNCHANGED <<data, ran, recall, rfMem, explainerDef, featsFrom, predResult,
                   shapStatus, regionResult, offered,
                   sessVars, alignVars, dataVars, logVars>>

\* lines 397-413
SegShapOk ==
    /\ pc = "segshap"
    /\ CanExplain
    /\ segResult' = "rendered"
    /\ Advance("region", {"segshap"})
    /\ UNCHANGED <<data, recall, rfMem, explainerDef, featsFrom, predResult,
                   shapStatus, regionResult, offered,
                   sessVars, alignVars, dataVars, logVars>>

MapRenders == {"Latitude", "Longitude"} \subseteq data.cols

\* line 426 raises (line 195 reads Latitude and Longitude): reported by the
\* handler of line 465.
MapFail ==
    /\ pc = "region"
    /\ ~MapRenders
    /\ regionResult' = "error"
    /\ pc' = "download"
    /\ UNCHANGED <<data, ran, recall, rfMem, explainerDef, featsFrom, predResult,
                   shapStatus, segResult, offered,
                   sessVars, alignVars, dataVars, logVars>>

\* lines 426-430: no region of the map is selected.
RegionSkip ==
    /\ pc = "region"
    /\ MapRenders
    /\ Advance("download", {"map"})
    /\ UNCHANGED <<data, recall, rfMem, explainerDef, featsFrom, predResult,
                   shapStatus, segResult, regionResult, offered,
                   sessVars, alignVars, dataVars, logVars>>

\* lines 446-452: expected_features or explainer is not defined.
RegionNameError ==
    /\ pc = "region"
    /\ MapRenders
    /\ ~CanExplain
    /\ regionResult' = "name_error"
    /\ Advance("download", {"map"})
    /\ UNCHANGED <<data, recall, rfMem, explainerDef, featsFrom, predResult,
                   shapStatus, segResult, offered,
                   sessVars, alignVars, dataVars, logVars>>

\* line 452 raises.
RegionFail ==
    /\ pc = "region"
    /\ MapRenders
    /\ CanExplain
    /\ regionResult' = "error"
    /\ Advance("download", {"map"})
    /\ UNCHANGED <<data, recall, rfMem, explainerDef, featsFrom, predResult,
                   shapStatus, segResult, offered,
                   sessVars, alignVars, dataVars, logVars>>

\* lines 430-461
RegionOk ==
    /\ pc = "region"
    /\ MapRenders
    /\ CanExplain
    /\ regionResult' = "rendered"
    /\ Advance("download", {"map", "regionshap"})
    /\ UNCHANGED <<data, recall, rfMem, explainerDef, featsFrom, predResult,
                   shapStatus, segResult, offered,
                   sessVars, alignVars, dataVars, logVars>>

\* lines 478-483: whatever st.session_state['shap_df'] and shap_plot.png
\* hold is offered for download.
Downloads ==
    /\ pc = "download"
    /\ offered' = (IF sessShap # 0 THEN {<<"csv", sessShap>>} ELSE {})
                  \cup (IF plotFile # 0 THEN {<<"png", plotFile>>} ELSE {})
    /\ Advance("end", {"download"})
    /\ UNCHANGED <<data, recall, rfMem, explainerDef, featsFrom, predResult,
                   shapStatus, segResult, regionResult,
                   sessVars, alignVars, dataVars, logVars>>

NextSession ==
    \/ Rerun
    \/ LoadOk
    \/ LoadFail
    \/ LabelImpute
    \/ LabelFail
    \/ ParseDates
    \/ ParseDatesFail
    \/ SegmentStage
    \/ EncodeStage
    \/ EncodeFail
    \/ SplitBalanceStage
    \/ TrainStage
    \/ EvaluateStage
    \/ GateStage
    \/ PredictSkip
    \/ PredictOk
    \/ PredictFail
    \/ TrendStage
    \/ ShapFailExplainer
    \/ ShapFailSample
    \/ ShapFailValues
    \/ ShapOk
    \/ SegShapNameError
    \/ SegShapFail
    \/ SegShapOk
    \/ MapFail
    \/ RegionSkip
    \/ RegionNameError
    \/ RegionFail
    \/ RegionOk
    \/ Downloads

----------------------------------------------------------------------------
(* Specifications *)

----------------------------------------------------------------------------
(* Two sessions running the Predict handler (lines 232-263) against the    *)
(* same prediction_log.csv. Each session is a thread of its own; the       *)
(* handler takes no lock, so the exists-check of line 256 and the write of *)
(* line 257 or 259 are separate steps.                                     *)

Sessions == {1, 2}

MaxRequests == 2

\* The row id of session s's k-th request (ids stand for the timestamps).
RequestId(s, k) == s * (MaxRequests + 1) + k

\* A row written by an earlier request, before either session clicks.
EarlierRow == <<0, PredictedLabel(50), 50>>

LogIdle ==
    /\ wpc = [s \in Sessions |-> "idle"]
    /\ wsaw = [s \in Sessions |-> FALSE]
    /\ wrow = [s \in Sessions |-> <<>>]
    /\ wreq = [s \in Sessions |-> 0]
    /\ wsaved = <<>>

\* The log file is absent, or holds what an earlier request left.
LogInit ==
    /\ LogIdle
    /\ run = 0 /\ reqs = 0 /\ appLog = <<>>
    /\ artifact = <<>> /\ sessShap = 0 /\ plotFile = 0
    /\ pc = "stopped" /\ data = NoData /\ FreshRun
    /\ \/ logExists = FALSE /\ logLines = <<>>
       \/ logExists = TRUE /\ logLines = WriteLog(FALSE, <<>>, EarlierRow)

\* lines 232-254: the request is scored and its pred_log row is built.
BuildRow(s) ==
    /\ wpc[s] = "idle"
    /\ wreq[s] < MaxRequests
    /\ \E prob \in Probs :
          wrow' = [wrow EXCEPT ![s] =
                     <<RequestId(s, wreq[s] + 1), PredictedLabel(prob), prob>>]
    /\ wreq' = [wreq EXCEPT ![s] = @ + 1]
    /\ wpc' = [wpc EXCEPT ![s] = "check"]
    /\ UNCHANGED <<wsaw, wsaved, alignVars, dataVars, sessVars, runVars>>

\* line 256: os.path.exists(log_file)
CheckExists(s) ==
    /\ wpc[s] = "check"
    /\ wsaw' = [wsaw EXCEPT ![s] = logExists]
    /\ wpc' = [wpc EXCEPT ![s] = "write"]
    /\ UNCHANGED <<wrow, wreq, wsaved, alignVars, dataVars, sessVars, runVars>>

\* line 257 (append, no header) or line 259 (create, with the header),
\* as the check of line 256 decided; then line 260.
WriteRow(s) ==
    /\ wpc[s] = "write"
    /\ logLines' = WriteLog(wsaw[s], logLines, wrow[s])
    /\ logExists' = TRUE
    /\ wsaved' = Append(wsaved, wrow[s])
    /\ wpc' = [wpc EXCEPT ![s] = "idle"]
    /\ UNCHANGED <<wsaw, wrow, wreq, run, reqs, appLog, artifact, sessShap, plotFile,
                   alignVars, dataVars, runVars>>

NextLog ==
    \E s \in Sessions :
        \/ BuildRow(s)
        \/ CheckExists(s)
        \/ WriteRow(s)

NextAlign ==
    \/ AlignOnce
    \/ AlignAgain

InitAlign == AlignInit /\ DataIdle /\ SessionIdle /\ LogIdle

SpecAlign == InitAlign /\ [][NextAlign]_vars

InitData == DataInit /\ AlignIdle /\ SessionIdle /\ LogIdle

SpecData == InitData /\ [][NextData]_vars

Init == SessionInit /\ AlignIdle /\ DataIdle /\ LogIdle

Next == NextSession

Spec == Init /\ [][Next]_vars

InitLog == LogInit /\ AlignIdle /\ DataIdle

SpecLog == InitLog /\ [][NextLog]_vars

----------------------------------------------------------------------------
(* C1: the aligned record set has exactly the schema's columns in the    *)
(* schema's order and as many rows as the input; a schema column absent  *)
(* from the input is 0 in every row, a column in both is passed through, *)
(* and no column outside the schema remains.                             *)
C1_AlignContract ==
    apc \in {"aligned", "realigned"} =>
        /\ out.cols = S
        /\ Len(out.rows) = Len(X.rows)
        /\ \A i \in DOMAIN out.rows :
              /\ DOMAIN out.rows[i] = Range(S)
              /\ \A k \in Range(S) :
                    out.rows[i][k] =
                        IF k \in Range(X.cols) THEN X.rows[i][k] ELSE 0

C1_Witness ==
    /\ apc = "aligned"
    /\ Len(X.rows) = 2
    /\ \E k \in Range(X.cols) : k \notin Range(S)
    /\ \E k \in Range(S) : k \notin Range(X.cols)
    /\ \E k \in Range(S) \cap Range(X.cols) :
          X.rows[1][k] = 1 /\ out.rows[1][k] = 1
    /\ S # SubSeq(X.cols, 1, Len(S))

(* C8: aligning an aligned record set against the same schema changes    *)
(* nothing: same columns, same order, same rows, same values.            *)
C8_AlignIdempotent ==
    apc = "realigned" => out2 = out

C8_Witness ==
    /\ apc = "realigned"
    /\ Len(X.rows) >= 1
    /\ X.cols # S
    /\ \E k \in Range(X.cols) : k \notin Range(S)
    /\ \E k \in Range(S) : k \notin Range(X.cols)
    /\ out2 = out

----------------------------------------------------------------------------
(* Helpers of the statements about SpecData *)

Ran(e) == \E k \in DOMAIN events : events[k] = e

Count(e) == Cardinality({k \in DOMAIN events : events[k] = e})

Before(a, b) ==
    \E i \in DOMAIN events :
        events[i] = a /\ \E j \in (i + 1)..Len(events) : events[j] = b

\* Four times the 0.75 quantile of a column's present values, as a
\* one-element sequence, or <<>> when the column holds no number.
QuantileOf(col) ==
    LET v == Present(col)
    IN IF v = <<>> THEN <<>> ELSE <<Quantile75x4(v)>>

AtLeast(q, col, i) ==
    /\ IsNum(col[i])
    /\ q # <<>>
    /\ 4 * col[i][2] >= q[1]

InBalanced(c) == Cardinality({k \in DOMAIN balanced : risk[balanced[k]] = c})

InTrain(c) == Cardinality({i \in trainIdx : risk[i] = c})

Max(a, b) == IF a >= b THEN a ELSE b

(* C2, as stated: once the label is derived, in the record set the rest   *)
(* of the pipeline uses, claim_risk is 1 exactly for the records whose    *)
(* claim amount is at least the 0.75 quantile of the claim-amount column. *)
C2_Original ==
    risk # <<>> =>
        LET q == QuantileOf(amt)
        IN \A i \in DOMAIN risk : (risk[i] = 1) <=> AtLeast(q, amt, i)

(* C2, amended: claim_risk is 1 exactly for the records whose claim       *)
(* amount as loaded is present and at least the 0.75 quantile of the      *)
(* present loaded amounts, and 0 for every other record (a record whose   *)
(* amount is missing included); the imputed column is not the reference.  *)
C2_LabelFromRaw ==
    risk # <<>> =>
        LET q == QuantileOf(raw)
        IN /\ DOMAIN risk = DOMAIN raw
           /\ \A i \in DOMAIN risk :
                 /\ risk[i] \in {0, 1}
                 /\ (risk[i] = 1) <=> AtLeast(q, raw, i)

C2_Witness ==
    /\ Ran("impute_num")
    /\ \E i \in DOMAIN raw : IsNA(raw[i]) /\ risk[i] = 0 /\ AtLeast(QuantileOf(amt), amt, i)
    /\ \E i \in DOMAIN raw : risk[i] = 1
    /\ \E i \in DOMAIN raw : IsNum(raw[i]) /\ risk[i] = 0

(* C4, as stated, for a training split that holds both classes: the      *)
(* balanced training set holds as many class-0 rows as class-1 rows,      *)
(* namely as many as the larger class of the training split has, and a    *)
(* class that is strictly larger than the other keeps every row.          *)
C4_Balanced ==
    Ran("balance") /\ InTrain(0) > 0 /\ InTrain(1) > 0 =>
        /\ InBalanced(0) = InBalanced(1)
        /\ InBalanced(0) = Max(InTrain(0), InTrain(1))
        /\ \A c \in {0, 1} :
              InTrain(c) > InTrain(1 - c) =>
                  \A i \in trainIdx : risk[i] = c => i \in Range(balanced)

(* C9: the label is derived once, while the amount column is still the    *)
(* loaded one, before the median imputation, which runs before the        *)
(* 'Unknown' imputation; once derived, no stage changes any record's      *)
(* label.                                                                 *)
C9_Order ==
    /\ Count("label") <= 1
    /\ dpc = "label" => amt = raw /\ ~Ran("impute_num") /\ ~Ran("impute_unknown")
    /\ Ran("impute_num") => Before("label", "impute_num")
    /\ Ran("impute_unknown") => Before("impute_num", "impute_unknown")
    /\ \A e \in {"dates", "segment", "encode", "split", "balance"} :
          Ran(e) => Before("label", e) /\ Before("impute_unknown", e)

C9_LabelStable == risk # <<>> => risk' = risk

C9_LabelOrdering == [](C9_Order) /\ [][C9_LabelStable]_vars

C9_Witness ==
    /\ dpc = "done"
    /\ Ran("encode") /\ Ran("balance")
    /\ amt # raw
    /\ gender # FillUnknown(gender) \/ Str("Unknown") \in Range(gender)
    /\ \E i \in DOMAIN risk : risk[i] = 1
    /\ \E i \in DOMAIN risk : risk[i] = 0

----------------------------------------------------------------------------
(* Helpers of the statements about Spec *)

PastGate == recall # <<>> /\ pc # "gate"

SavedByThisRun == artifact # <<>> /\ artifact[1] = run

IsPrefix(a, b) == Len(a) <= Len(b) /\ SubSeq(b, 1, Len(a)) = a

IngestionError(d) ==
    \/ ~d.loadable
    \/ ~(RequiredCols \subseteq d.cols)
    \/ \E c \in DOMAIN d.cells : ~Parseable(d.cells[c])

(* C3: once the gate has run, this run's model is in the model artifact   *)
(* exactly when its class-1 recall is strictly greater than 0.39: not at  *)
(* 0.39 or below, and at 0.40.                                            *)
C3_GateBoundary ==
    PastGate =>
        /\ SavedByThisRun <=> (100 * recall[1] > 39 * recall[2])
        /\ SavedByThisRun => artifact[2] = recall
        /\ recall = <<39, 100>> => ~SavedByThisRun
        /\ recall = <<40, 100>> => SavedByThisRun

C3_Witness ==
    /\ pc = "end"
    /\ run = 2
    /\ recall = <<39, 100>>
    /\ artifact = <<1, <<40, 100>>>>

(* C5: the log file exists exactly when a request has succeeded; it is    *)
(* one header line followed by one row per successful request, in request *)
(* order; a step only ever extends the file, a successful request by its  *)
(* one row (and the header when it creates the file), a failed request    *)
(* and every other step by nothing.                                       *)
C5_LogShape ==
    /\ logExists <=> logLines # <<>>
    /\ logExists <=> appLog # <<>>
    /\ logExists =>
          /\ logLines[1] = Header
          /\ Len(logLines) = Len(appLog) + 1
          /\ \A k \in 2..Len(logLines) :
                /\ logLines[k][1] = "row"
                /\ logLines[k][2] = appLog[k - 1]
                /\ logLines[k][2][1] \in 1..reqs
                /\ logLines[k][2][2] = PredictedLabel(logLines[k][2][3])
                /\ k > 2 => logLines[k - 1][2][1] < logLines[k][2][1]

C5_LogStep ==
    /\ IsPrefix(logLines, logLines')
    /\ reqs' = reqs => logLines' = logLines
    /\ reqs' # reqs /\ predResult' = "failed" => logLines' = logLines
    /\ reqs' # reqs /\ predResult' = "ok" =>
          /\ Len(logLines') = Len(logLines) + (IF logExists THEN 1 ELSE 2)
          /\ logLines'[Len(logLines')][2][1] = reqs'

C5_AppendOnly == [](C5_LogShape) /\ [][C5_LogStep]_vars

C5_Witness ==
    /\ reqs = 3
    /\ predResult = "ok"
    /\ Len(logLines) = 3
    /\ logLines[2][2][1] = 1
    /\ logLines[3][2][1] = 3

(* C6, as stated: in a run whose attribution stage has failed, the        *)
(* segment and region attribution steps do not render from the explainer  *)
(* and feature list left behind, and no attribution table or plot file is *)
(* offered for download.                                                  *)
C6_NoStaleState ==
    shapStatus = "failed" =>
        /\ segResult # "rendered"
        /\ regionResult # "rendered"
        /\ offered = {}

(* C7, as stated: in a run whose dataset cannot be loaded, holds an       *)
(* unparseable value in a present date column, or lacks a required        *)
(* column, none of segmentation, encoding, training, evaluation, model    *)
(* persistence, prediction and log writing executes.                      *)
C7_IngestionFatal ==
    IngestionError(data) =>
        ran \cap {"segment", "encode", "train", "evaluate", "persist",
                  "predict", "log_write"} = {}

(* C10, as stated: once the gate has run, the recall is in [0,1] and this *)
(* run has produced the artifact exactly when the recall is at least      *)
(* 0.39.                                                                  *)
C10_Original ==
    PastGate =>
        /\ 0 <= recall[1] /\ recall[1] <= recall[2] /\ recall[2] > 0
        /\ SavedByThisRun <=> (100 * recall[1] >= 39 * recall[2])

(* C10, amended: once the gate has run, the recall is in [0,1]; this run  *)
(* has produced the artifact exactly when the recall is strictly greater  *)
(* than 0.39; and either way the fitted model stays in memory and the run *)
(* goes on to the prediction and attribution stages.                      *)
C10_GateOutcome ==
    PastGate =>
        /\ 0 <= recall[1] /\ recall[1] <= recall[2] /\ recall[2] > 0
        /\ ("persist" \in ran) <=> (100 * recall[1] > 39 * recall[2])
        /\ rfMem
        /\ pc # "stopped"

C10_Witness ==
    /\ pc = "end"
    /\ recall = <<39, 100>>
    /\ artifact = <<>>
    /\ "persist" \notin ran
    /\ predResult = "ok"
    /\ shapStatus = "ok"
    /\ segResult = "rendered"

(***************************************************************************)
(* C11, as stated: after balancing, for the class that has fewer rows in   *)
(* the training split (the minority), every row of that class in the       *)
(* balanced set is a row of that class of the training split, and every    *)
(* row of that class of the training split appears in the balanced set.    *)
(***************************************************************************)
BalancedRowsOf(c) == {balanced[k] : k \in {j \in DOMAIN balanced : risk[balanced[j]] = c}}

C11_MinorityPreserved ==
    Ran("balance") =>
        \A c \in {0, 1} :
            (InTrain(c) > 0 /\ InTrain(c) < InTrain(1 - c)) =>
                /\ BalancedRowsOf(c) \subseteq (trainIdx \cap RowsOf(c))
                /\ (trainIdx \cap RowsOf(c)) \subseteq BalancedRowsOf(c)

(***************************************************************************)
(* C12, as stated: a failed attribution computation stays with its own     *)
(* request. No segment or region explanation fails because a name that an  *)
(* earlier explanation step was to define is missing, and whenever an      *)
(* explanation step has failed the trained model is still in memory and    *)
(* the run has not been stopped.                                           *)
(***************************************************************************)
ExplanationFailed ==
    \/ shapStatus = "failed"
    \/ segResult \in {"error", "name_error"}
    \/ regionResult \in {"error", "name_error"}

C12_Isolated ==
    /\ segResult # "name_error"
    /\ regionResult # "name_error"
    /\ ExplanationFailed => (rfMem /\ pc # "stopped")

(***************************************************************************)
(* C13, as stated, for the held-out set: in a run whose tree explainer has *)
(* been built and whose held-out set holds at least one row but fewer rows *)
(* than the configured sample size, the explanation step has completed     *)
(* without error.                                                          *)
(***************************************************************************)
C13_SmallSamples ==
    (explainerDef /\ NTest(data.rows) >= 1 /\ NTest(data.rows) < SampleSize)
        => shapStatus = "ok"

(***************************************************************************)
(* C14, as stated: under every interleaving of the sessions' log writes,   *)
(* the log holds the row of every write that has returned, and it holds    *)
(* exactly one header line, its first.                                     *)
(***************************************************************************)
C14_ConcurrentWrites ==
    /\ \A j \in DOMAIN wsaved :
          \E k \in DOMAIN logLines :
              logLines[k][1] = "row" /\ logLines[k][2] = wsaved[j]
    /\ logExists =>
          /\ logLines[1] = Header
          /\ \A k \in DOMAIN logLines : k > 1 => logLines[k][1] = "row"

====
